---- MODULE Spec2Model ----
(***************************************************************************)
(* kw2graph: the Home component of the single-page client.                 *)
(*                                                                         *)
(* The state is the component's React state; one action per event          *)
(* handler (a click on a stage button, a change of the keyword input) and  *)
(* one per continuation of a fetch function after its await (the response  *)
(* or the failure of the HTTP request).  Requests in flight are the        *)
(* suspended fetch functions.                                              *)
(*                                                                         *)
(* Strings the claims look into (the keyword) are sequences of             *)
(* one-character strings; user-visible messages are sequences of message   *)
(* parts, in English where the source is Japanese.                         *)
(***************************************************************************)
EXTENDS Integers, Sequences, FiniteSets, TLC

(* ---- bounds ---- *)
\* requests sent in one behaviour
MaxRequests == 4
\* items in a list the backend returns
MaxItems == 2
\* requests in flight at the same time
MaxInflight == 2

(* ---- values ---- *)
\* T | null: null is the empty sequence, a value v is <<v>>
Null == <<>>
Some(v) == <<v>>
Val(x) == x[1]

\* what the user can type into the keyword field
KeywordInputs == {<<>>, <<" ">>, <<"a", " ">>}

IsSpace(c) == c = " "

RECURSIVE trimStart(_)
trimStart(s) ==
    IF s = <<>> THEN s
    ELSE IF IsSpace(Head(s)) THEN trimStart(Tail(s)) ELSE s

RECURSIVE trimEnd(_)
trimEnd(s) ==
    IF s = <<>> THEN s
    ELSE IF IsSpace(s[Len(s)]) THEN trimEnd(SubSeq(s, 1, Len(s) - 1)) ELSE s

\* String.prototype.trim
trim(s) == trimEnd(trimStart(s))

(* ---- numbers and their text ---- *)
Digits == <<"0", "1", "2", "3", "4", "5", "6", "7", "8", "9">>
IsDigit(c) == \E d \in 1..10 : Digits[d] = c
DigitVal(c) == (CHOOSE d \in 1..10 : Digits[d] = c) - 1

\* the longest prefix of s made of digits
RECURSIVE digitPrefix(_)
digitPrefix(s) ==
    IF s = <<>> \/ ~IsDigit(Head(s)) THEN <<>> ELSE <<Head(s)>> \o digitPrefix(Tail(s))

\* the value of a sequence of digits
RECURSIVE digitsValue(_)
digitsValue(ds) ==
    IF ds = <<>> THEN 0 ELSE 10 * digitsValue(SubSeq(ds, 1, Len(ds) - 1)) + DigitVal(ds[Len(ds)])

NaN == [nan |-> TRUE, val |-> 0]
Num(n) == [nan |-> FALSE, val |-> n]

\* parseInt(s, 10): leading white space, a sign, then digits; the rest is ignored
parseInt(s) ==
    LET t == trimStart(s)
        neg == t # <<>> /\ Head(t) = "-"
        u == IF t # <<>> /\ Head(t) \in {"-", "+"} THEN Tail(t) ELSE t
        ds == digitPrefix(u)
    IN IF ds = <<>> THEN NaN
       ELSE Num(IF neg THEN 0 - digitsValue(ds) ELSE digitsValue(ds))

\* parseFloat(s), in hundredths: a sign, digits, a point and digits; of the
\* fraction the first two digits count
parseFloat(s) ==
    LET t == trimStart(s)
        neg == t # <<>> /\ Head(t) = "-"
        u == IF t # <<>> /\ Head(t) \in {"-", "+"} THEN Tail(t) ELSE t
        ip == digitPrefix(u)
        rest == SubSeq(u, Len(ip) + 1, Len(u))
        fp == IF rest # <<>> /\ Head(rest) = "." THEN digitPrefix(Tail(rest)) ELSE <<>>
        f1 == IF Len(fp) >= 1 THEN DigitVal(fp[1]) ELSE 0
        f2 == IF Len(fp) >= 2 THEN DigitVal(fp[2]) ELSE 0
        v == 100 * digitsValue(ip) + 10 * f1 + f2
    IN IF ip = <<>> /\ fp = <<>> THEN NaN
       ELSE Num(IF neg THEN 0 - v ELSE v)

\* Number.prototype.toString of an integer n >= 0
RECURSIVE intToString(_)
intToString(n) ==
    IF n < 10 THEN <<Digits[n + 1]>> ELSE intToString(n \div 10) \o <<Digits[(n % 10) + 1]>>

\* Number.prototype.toString of h hundredths, h >= 0
numberToString(h) ==
    LET f == h % 100
    IN intToString(h \div 100) \o
       (IF f = 0 THEN <<>>
        ELSE IF f % 10 = 0 THEN <<".", Digits[(f \div 10) + 1]>>
        ELSE <<".", Digits[(f \div 10) + 1], Digits[(f % 10) + 1]>>)

(* ---- URLSearchParams ---- *)
\* params: a sequence of <<name, value>>, the value a sequence of characters

\* URLSearchParams.set: replaces the value of name, or appends the pair
paramsSet(params, name, value) ==
    IF \E i \in 1..Len(params) : params[i][1] = name
    THEN [i \in 1..Len(params) |-> IF params[i][1] = name THEN <<name, value>> ELSE params[i]]
    ELSE Append(params, <<name, value>>)

\* application/x-www-form-urlencoded of one character
encodeChar(c) ==
    CASE c = " " -> "+"
      [] c = "&" -> "%26"
      [] c = "=" -> "%3D"
      [] c = "+" -> "%2B"
      [] OTHER -> c

decodeChar(c) ==
    CASE c = "+" -> " "
      [] c = "%26" -> "&"
      [] c = "%3D" -> "="
      [] c = "%2B" -> "+"
      [] OTHER -> c

encode(v) == [i \in 1..Len(v) |-> encodeChar(v[i])]
decode(v) == [i \in 1..Len(v) |-> decodeChar(v[i])]

\* URLSearchParams.toString: name=value pairs joined by &, as a sequence of
\* tokens (a name, "=", "&", an encoded character)
RECURSIVE paramsToString(_)
paramsToString(params) ==
    IF params = <<>> THEN <<>>
    ELSE LET h == <<params[1][1], "=">> \o encode(params[1][2])
         IN IF Len(params) = 1 THEN h ELSE h \o <<"&">> \o paramsToString(Tail(params))

\* what the server reads from a query string: the pairs, decoded
RECURSIVE untilToken(_, _)
untilToken(q, tok) ==
    IF q = <<>> \/ Head(q) = tok THEN <<>> ELSE <<Head(q)>> \o untilToken(Tail(q), tok)

RECURSIVE parseQuery(_)
parseQuery(q) ==
    IF q = <<>> THEN <<>>
    ELSE LET pair == untilToken(q, "&")
             rest == SubSeq(q, Len(pair) + 2, Len(q))
             name == untilToken(pair, "=")
             value == SubSeq(pair, Len(name) + 2, Len(pair))
         IN <<<<name[1], decode(value)>>>> \o parseQuery(rest)

\* the list f(1), ..., f(n) and the same list backwards
Reverse(s) == [i \in 1..Len(s) |-> s[Len(s) + 1 - i]]

\* Candidate number i of the search index
Candidate(i) == [videoId |-> <<"v", i>>, snippet |-> [title |-> <<"t", i>>]]

\* the candidate lists the backend may return
CandidateLists == {[i \in 1..n |-> Candidate(i)] : n \in {0, MaxItems}}

\* AnalyzeKeywordsOutputItem number i; score in tenths
AnalyzeItem(i) ==
    [keyword |-> <<"k", i>>, score |-> 3 * i,
     iab_categories |-> IF i % 2 = 1 THEN <<"Food & Drink">> ELSE <<>>,
     entity_type |-> IF i % 2 = 1 THEN "General" ELSE "Proper"]

\* the result lists the backend may return: in ascending or descending score
AnalyzeResultLists ==
    LET asc == {[i \in 1..n |-> AnalyzeItem(i)] : n \in {0, MaxItems}}
    IN asc \cup {Reverse(l) : l \in asc}

\* ShowGraphOutput
GraphNode(i) ==
    [id |-> <<"n", i>>,
     label |-> IF i % 2 = 1 THEN <<" ", "A">> ELSE <<"b">>,
     group |-> IF i % 2 = 1 THEN "related" ELSE "seed",
     entity_type |-> "General", iab_categories |-> <<>>]

GraphOutputs == {[nodes |-> [i \in 1..n |-> GraphNode(i)], edges |-> <<>>] : n \in {0, MaxItems}}

\* a JavaScript value as far as `=== true` can tell values apart
JsValues ==
    {[t |-> "boolean", v |-> "true"], [t |-> "boolean", v |-> "false"],
     [t |-> "number", v |-> "1"], [t |-> "string", v |-> "true"],
     [t |-> "undefined", v |-> ""]}

NoValue == [t |-> "none", v |-> ""]

\* a response body and a thrown error, as remembered in the history
Body(b) == [t |-> "body", v |-> b]
Thrown(err) == [t |-> "error", v |-> err]

\* what a request can throw: an AxiosError with a response (status, body),
\* an AxiosError without one (network failure, timeout), anything else
Errors ==
    {[axios |-> TRUE, isError |-> TRUE, status |-> "500", data |-> Some("{detail}"),
      message |-> "Request failed with status code 500"],
     [axios |-> TRUE, isError |-> TRUE, status |-> "undefined", data |-> Null,
      message |-> "Network Error"],
     [axios |-> FALSE, isError |-> FALSE, status |-> "", data |-> Null, message |-> ""]}

\* response.data.result on a response without a body
TypeErrorNoData ==
    [axios |-> FALSE, isError |-> TRUE, status |-> "", data |-> Null,
     message |-> "Cannot read properties of null"]

VARIABLES
    keyword,            \* useState('')
    candidateData,      \* CandidateResponse | null
    analyzeData,        \* AnalyzeKeywordsOutput | null
    graphData,          \* ShowGraphOutput | null
    error,              \* string | null
    isPending,          \* useTransition of the candidate stage
    isAnalyzePending,
    isCreatePending,
    isGraphPending,
    createStatus,       \* 'idle' | 'success' | 'failure'
    maxDepth,           \* useState(2)
    minScore,           \* useState(0.5), in hundredths
    entityTypeFilter,   \* 'all' | 'Proper' | 'General'
    iabCategoryFilter,  \* useState('')
    inflight,           \* requests sent and not yet answered
    nextId,             \* number of the next request
    lastAction,         \* history: the step that led to this state
    lastSearch,         \* history: number of the last candidate request started
    origin,             \* history: the request each held result came from
    visScript,          \* the vis.js script element: none, loading, loaded (window.vis set)
    scriptOwner,        \* the mount whose setIsVisLoaded the script's onload calls
    mountId,            \* the mounted GraphVisualizationComponent, 0 when there is none
    isVisLoaded,        \* useState(false) of the mounted component
    network,            \* the vis.Network the draw effect holds for its cleanup
    networks            \* number of vis.Network objects created and not destroyed

data == <<candidateData, analyzeData, graphData, error, createStatus>>
pendings == <<isPending, isAnalyzePending, isCreatePending, isGraphPending>>
hist == <<lastAction, lastSearch, origin>>
filters == <<maxDepth, minScore, entityTypeFilter, iabCategoryFilter>>
comp == <<visScript, scriptOwner, mountId, isVisLoaded, network, networks>>
vars == <<keyword, data, pendings, inflight, nextId, hist, filters, comp>>

\* was: the create status before the step
Act(op, id, arg) == [op |-> op, arg |-> arg, was |-> createStatus]

Init ==
    /\ keyword = <<>>
    /\ candidateData = Null
    /\ analyzeData = Null
    /\ graphData = Null
    /\ error = Null
    /\ isPending = FALSE
    /\ isAnalyzePending = FALSE
    /\ isCreatePending = FALSE
    /\ isGraphPending = FALSE
    /\ createStatus = "idle"
    /\ maxDepth = 2
    /\ minScore = 50
    /\ entityTypeFilter = "all"
    /\ iabCategoryFilter = <<>>
    /\ inflight = {}
    /\ nextId = 1
    /\ lastAction = [op |-> "init", arg |-> NoValue, was |-> "idle"]
    /\ lastSearch = 0
    /\ origin = [candidate |-> 0, analyze |-> 0, graph |-> 0, create |-> 0]
    /\ visScript = "none"
    /\ scriptOwner = 0
    /\ mountId = 0
    /\ isVisLoaded = FALSE
    /\ network = Null
    /\ networks = 0

AnyPending == isPending \/ isAnalyzePending \/ isCreatePending \/ isGraphPending

\* the keyword TextField: onChange, disabled while any transition is pending
setKeyword(v) ==
    /\ ~AnyPending
    /\ v # keyword
    /\ keyword' = v
    /\ lastAction' = Act("setKeyword", 0, NoValue)
    /\ UNCHANGED <<data, pendings, inflight, nextId, lastSearch, origin, filters>>

(* ---- the graph settings ---- *)
\* what the user can type into the max-depth and the minimum-score fields
DepthInputs == {<<>>, <<"3">>, <<"-", "1">>, <<"x">>}
ScoreInputs == {<<>>, <<"1">>, <<"0", ".", "2", "5">>, <<"1", ".", "5">>, <<"-", "1">>, <<"x">>}
EntityTypes == {"all", "Proper", "General"}
IabInputs == {<<>>, <<" ">>, <<" ", "F", " ", "&">>}

Edit(op, input) == lastAction' = [op |-> op, arg |-> [t |-> "input", v |-> input], was |-> createStatus]

handleMaxDepthChangeAcceptingNegative(input) ==
    LET value == parseInt(input)
    IN /\ ~AnyPending
       /\ maxDepth' = IF ~value.nan THEN value.val
                      ELSE IF input = <<>> THEN 0
                      ELSE maxDepth
       /\ Edit("handleMaxDepthChange", input)
       /\ UNCHANGED <<keyword, data, pendings, inflight, nextId, lastSearch, origin,
                      minScore, entityTypeFilter, iabCategoryFilter>>

\* the max-depth TextField: disabled while any transition is pending
handleMaxDepthChange(input) ==
    LET value == parseInt(input)
    IN /\ ~AnyPending
       /\ maxDepth' = IF ~value.nan /\ value.val >= 0 THEN value.val
                      ELSE IF input = <<>> THEN 0
                      ELSE maxDepth
       /\ Edit("handleMaxDepthChange", input)
       /\ UNCHANGED <<keyword, data, pendings, inflight, nextId, lastSearch, origin,
                      minScore, entityTypeFilter, iabCategoryFilter>>

handleMinScoreChangeUnbounded(input) ==
    LET value == parseFloat(input)
    IN /\ minScore' = IF ~value.nan /\ value.val >= 0 THEN value.val
                      ELSE minScore
       /\ Edit("handleMinScoreChange", input)
       /\ UNCHANGED <<keyword, data, pendings, inflight, nextId, lastSearch, origin,
                      maxDepth, entityTypeFilter, iabCategoryFilter>>

\* the minimum-score TextField
handleMinScoreChange(input) ==
    LET value == parseFloat(input)
    IN /\ minScore' = IF ~value.nan /\ value.val >= 0 /\ value.val <= 100 THEN value.val
                      ELSE minScore
       /\ Edit("handleMinScoreChange", input)
       /\ UNCHANGED <<keyword, data, pendings, inflight, nextId, lastSearch, origin,
                      maxDepth, entityTypeFilter, iabCategoryFilter>>

\* the entity-type select
setEntityTypeFilter(v) ==
    /\ entityTypeFilter' = v
    /\ Edit("setEntityTypeFilter", <<v>>)
    /\ UNCHANGED <<keyword, data, pendings, inflight, nextId, lastSearch, origin,
                   maxDepth, minScore, iabCategoryFilter>>

\* the IAB-category TextField
setIabCategoryFilter(v) ==
    /\ iabCategoryFilter' = v
    /\ Edit("setIabCategoryFilter", v)
    /\ UNCHANGED <<keyword, data, pendings, inflight, nextId, lastSearch, origin,
                   maxDepth, minScore, entityTypeFilter>>

(* ---- messages ---- *)
MsgKeywordRequired == <<"Please enter a keyword.">>
MsgAnalyzeNeedsCandidates == <<"To run Analyze, run the Candidate search first and obtain results.">>
MsgCreateNeedsAnalyze == <<"To run Create Graph, run the Analyze search and obtain results.">>
MsgShowGraphNeedsKeyword == <<"To show the graph, enter a search keyword.">>
MsgCreateReturnedFailure == <<"The graph creation API returned failure.">>

\* handleAxiosError: the string it passes to setError
ErrorMessage(err, apiName) ==
    IF err.axios
    THEN <<apiName, " API request failed: ", "HTTP error (", err.status, "): ",
           IF err.data # Null THEN Val(err.data) ELSE err.message>>
    ELSE <<"Unexpected error: ", IF err.isError THEN err.message ELSE "unknown error">>

\* response.data.result == true
LooseEqualsTrue(x) == (x.t = "boolean" /\ x.v = "true") \/ (x.t = "number" /\ x.v = "1")

\* response.data.result === true
StrictEqualsTrue(x) == x.t = "boolean" /\ x.v = "true"

(* ---- the stage buttons' disabled props ---- *)
GetCandidateDisabled == isPending \/ trim(keyword) = <<>>

AnalyzeDisabledWithoutData ==
    isAnalyzePending \/ isPending \/ isCreatePending \/ isGraphPending

AnalyzeDisabled ==
    candidateData = Null \/ isAnalyzePending \/ isPending \/ isCreatePending \/ isGraphPending

CreateGraphDisabledWithoutData ==
    isCreatePending \/ isPending \/ isAnalyzePending \/ isGraphPending

CreateGraphDisabled ==
    analyzeData = Null \/ isCreatePending \/ isPending \/ isAnalyzePending \/ isGraphPending

ShowGraphDisabledUntilAnalyzed ==
    \/ analyzeData = Null
    \/ trim(keyword) = <<>> \/ isGraphPending \/ isPending \/ isAnalyzePending \/ isCreatePending

ShowGraphDisabled ==
    trim(keyword) = <<>> \/ isGraphPending \/ isPending \/ isAnalyzePending \/ isCreatePending

(* ---- history bookkeeping ---- *)
\* a held result remembers the request it came from; a cleared one, none
Track(cand, a, g, c) ==
    origin' = [candidate |-> IF candidateData' = Null THEN 0 ELSE cand,
               analyze |-> IF analyzeData' = Null THEN 0 ELSE a,
               graph |-> IF graphData' = Null THEN 0 ELSE g,
               create |-> IF createStatus' = "idle" THEN 0 ELSE c]

KeepOrigin == Track(origin.candidate, origin.analyze, origin.graph, origin.create)

\* the model's bounds on the requests
CanSend == nextId <= MaxRequests /\ Cardinality(inflight) < MaxInflight

\* axios.post(url, payload) / axios.get(url): api names the stage, payload
\* is the JSON body (of a GET, the query string)
Send(api, method, path, payload) ==
    /\ inflight' = inflight \cup
           {[id |-> nextId, api |-> api, method |-> method, path |-> path, payload |-> payload]}
    /\ nextId' = nextId + 1

(* ---- the fetch functions up to their await ---- *)
fetchCandidateTrimmingKeyword(kw) ==
    /\ error' = Null
    /\ candidateData' = Null
    /\ analyzeData' = Null
    /\ graphData' = Null
    /\ createStatus' = "idle"
    /\ Send("candidate", "POST", "/candidate",
            [index |-> "videos", field |-> "snippet.title", keyword |-> trim(kw)])

fetchCandidate(kw) ==
    /\ error' = Null
    /\ candidateData' = Null
    /\ analyzeData' = Null
    /\ graphData' = Null
    /\ createStatus' = "idle"
    /\ Send("candidate", "POST", "/candidate", [index |-> "videos", field |-> "snippet.title", keyword |-> kw])

fetchAnalyzeWithKeywordInput(seedKeyword, titles) ==
    /\ analyzeData' = Null
    /\ graphData' = Null
    /\ createStatus' = "idle"
    /\ error' = Null
    /\ UNCHANGED candidateData
    /\ Send("analyze", "POST", "/analyze", [seed_keyword |-> keyword, children |-> titles])

fetchAnalyze(seedKeyword, titles) ==
    /\ analyzeData' = Null
    /\ graphData' = Null
    /\ createStatus' = "idle"
    /\ error' = Null
    /\ UNCHANGED candidateData
    /\ Send("analyze", "POST", "/analyze", [seed_keyword |-> seedKeyword, children |-> titles])

CreateChildWithoutTags(item) ==
    [keyword |-> item.keyword, score |-> item.score,
     iab_categories |-> <<>>, entity_type |-> "General"]

\* the children of the create payload: data.results.map(item => ({...}))
CreateChild(item) ==
    [keyword |-> item.keyword, score |-> item.score,
     iab_categories |-> item.iab_categories, entity_type |-> item.entity_type]

fetchCreateGraph(d) ==
    /\ createStatus' = "idle"
    /\ error' = Null
    /\ UNCHANGED <<candidateData, analyzeData, graphData>>
    /\ Send("create", "POST", "/create",
            [seed_keyword |-> d.seed_keyword,
             children |-> [i \in 1..Len(d.results) |-> CreateChild(d.results[i])]])

showGraphParamsOmittingDefault(seedKeyword, depth, score, entity, iab) ==
    LET p0 == <<<<"seed_keyword", seedKeyword>>, <<"max_depth", intToString(depth)>>>>
        pm == IF score # 50 THEN paramsSet(p0, "min_score", numberToString(score)) ELSE p0
        p1 == IF entity # "all" THEN paramsSet(pm, "entity_type", <<entity>>) ELSE pm
    IN IF trim(iab) # <<>> THEN paramsSet(p1, "iab_category", trim(iab)) ELSE p1

showGraphParamsUntrimmed(seedKeyword, depth, score, entity, iab) ==
    LET p0 == <<<<"seed_keyword", seedKeyword>>,
                <<"max_depth", intToString(depth)>>,
                <<"min_score", numberToString(score)>>>>
        p1 == IF entity # "all" THEN paramsSet(p0, "entity_type", <<entity>>) ELSE p0
    IN IF trim(iab) # <<>> THEN paramsSet(p1, "iab_category", iab) ELSE p1

showGraphParamsTrimmedKeyword(seedKeyword, depth, score, entity, iab) ==
    LET p0 == <<<<"seed_keyword", trim(seedKeyword)>>,
                <<"max_depth", intToString(depth)>>,
                <<"min_score", numberToString(score)>>>>
        p1 == IF entity # "all" THEN paramsSet(p0, "entity_type", <<entity>>) ELSE p0
    IN IF trim(iab) # <<>> THEN paramsSet(p1, "iab_category", trim(iab)) ELSE p1

\* the URLSearchParams of the show-graph request
showGraphParams(seedKeyword, depth, score, entity, iab) ==
    LET p0 == <<<<"seed_keyword", seedKeyword>>,
                <<"max_depth", intToString(depth)>>,
                <<"min_score", numberToString(score)>>>>
        p1 == IF entity # "all" THEN paramsSet(p0, "entity_type", <<entity>>) ELSE p0
    IN IF trim(iab) # <<>> THEN paramsSet(p1, "iab_category", trim(iab)) ELSE p1

SendShowGraph(seedKeyword, depth, score, entity, iab) ==
    Send("show_graph", "GET", "/show_graph",
         [query |-> paramsToString(showGraphParams(seedKeyword, depth, score, entity, iab))])

fetchShowGraphClearingAnalysis(seedKeyword, depth, score, entity, iab) ==
    /\ graphData' = Null
    /\ analyzeData' = Null
    /\ error' = Null
    /\ createStatus' = "idle"
    /\ UNCHANGED candidateData
    /\ SendShowGraph(seedKeyword, depth, score, entity, iab)

fetchShowGraphKeepingStatus(seedKeyword, depth, score, entity, iab) ==
    /\ graphData' = Null
    /\ error' = Null
    /\ UNCHANGED <<candidateData, analyzeData, createStatus>>
    /\ SendShowGraph(seedKeyword, depth, score, entity, iab)

fetchShowGraph(seedKeyword, depth, score, entity, iab) ==
    /\ graphData' = Null
    /\ error' = Null
    /\ createStatus' = "idle"
    /\ UNCHANGED <<candidateData, analyzeData>>
    /\ SendShowGraph(seedKeyword, depth, score, entity, iab)

RejectClearingResults(op, msg) ==
    /\ error' = Some(msg)
    /\ candidateData' = Null
    /\ analyzeData' = Null
    /\ lastAction' = Act(op, 0, NoValue)
    /\ UNCHANGED <<keyword, graphData, createStatus,
                   pendings, inflight, nextId, lastSearch, origin, filters>>

\* a handler that only reports why it does nothing
Reject(op, msg) ==
    /\ error' = Some(msg)
    /\ lastAction' = Act(op, 0, NoValue)
    /\ UNCHANGED <<keyword, candidateData, analyzeData, graphData, createStatus,
                   pendings, inflight, nextId, lastSearch, origin, filters>>

(* ---- the click handlers ---- *)
NoCandidatesHeld == candidateData = Null

\* !candidateData || candidateData.candidates.length === 0
NoCandidates == candidateData = Null \/ Len(Val(candidateData).candidates) = 0

\* !analyzeData || analyzeData.results.length === 0
NoResults == analyzeData = Null \/ Len(Val(analyzeData).results) = 0

handleGetCandidate ==
    /\ ~GetCandidateDisabled
    /\ IF trim(keyword) = <<>>
       THEN Reject("handleGetCandidate", MsgKeywordRequired)
       ELSE /\ CanSend
            /\ isPending' = TRUE
            /\ fetchCandidate(keyword)
            /\ lastAction' = Act("fetchCandidate", nextId, NoValue)
            /\ lastSearch' = nextId
            /\ KeepOrigin
            /\ UNCHANGED <<keyword, isAnalyzePending, isCreatePending, isGraphPending, filters>>

handleAnalyze ==
    /\ ~AnalyzeDisabled
    /\ IF NoCandidates
       THEN Reject("handleAnalyze", MsgAnalyzeNeedsCandidates)
       ELSE /\ CanSend
            /\ isAnalyzePending' = TRUE
            /\ LET cd == Val(candidateData)
                   titles == [i \in 1..Len(cd.candidates) |-> cd.candidates[i].snippet.title]
               IN fetchAnalyze(cd.seed_keyword, titles)
            /\ lastAction' = Act("fetchAnalyze", nextId, NoValue)
            /\ KeepOrigin
            /\ UNCHANGED <<keyword, isPending, isCreatePending, isGraphPending, lastSearch, filters>>

handleCreateGraph ==
    /\ ~CreateGraphDisabled
    /\ IF NoResults
       THEN Reject("handleCreateGraph", MsgCreateNeedsAnalyze)
       ELSE /\ CanSend
            /\ isCreatePending' = TRUE
            /\ fetchCreateGraph(Val(analyzeData))
            /\ lastAction' = Act("fetchCreateGraph", nextId, NoValue)
            /\ KeepOrigin
            /\ UNCHANGED <<keyword, isPending, isAnalyzePending, isGraphPending, lastSearch, filters>>

handleShowGraph ==
    /\ ~ShowGraphDisabled
    /\ IF trim(keyword) = <<>>
       THEN Reject("handleShowGraph", MsgShowGraphNeedsKeyword)
       ELSE /\ CanSend
            /\ isGraphPending' = TRUE
            /\ fetchShowGraph(keyword, maxDepth, minScore, entityTypeFilter, iabCategoryFilter)
            /\ lastAction' = Act("fetchShowGraph", nextId, NoValue)
            /\ KeepOrigin
            /\ UNCHANGED <<keyword, isPending, isAnalyzePending, isCreatePending, lastSearch, filters>>

(* ---- the end of a transition ---- *)
\* The callback given to startTransition calls the fetch function and
\* returns nothing: the promise is dropped, so the transition covers the
\* state updates made before the await and ends when they are committed.
\* Its end is a step of its own, not tied to the HTTP response.
endTransition ==
    /\ isPending
    /\ isPending' = FALSE
    /\ lastAction' = Act("endTransition", 0, NoValue)
    /\ UNCHANGED <<keyword, data, isAnalyzePending, isCreatePending, isGraphPending,
                   inflight, nextId, lastSearch, origin, filters>>

endAnalyzeTransition ==
    /\ isAnalyzePending
    /\ isAnalyzePending' = FALSE
    /\ lastAction' = Act("endAnalyzeTransition", 0, NoValue)
    /\ UNCHANGED <<keyword, data, isPending, isCreatePending, isGraphPending,
                   inflight, nextId, lastSearch, origin, filters>>

endCreateTransition ==
    /\ isCreatePending
    /\ isCreatePending' = FALSE
    /\ lastAction' = Act("endCreateTransition", 0, NoValue)
    /\ UNCHANGED <<keyword, data, isPending, isAnalyzePending, isGraphPending,
                   inflight, nextId, lastSearch, origin, filters>>

endGraphTransition ==
    /\ isGraphPending
    /\ isGraphPending' = FALSE
    /\ lastAction' = Act("endGraphTransition", 0, NoValue)
    /\ UNCHANGED <<keyword, data, isPending, isAnalyzePending, isCreatePending,
                   inflight, nextId, lastSearch, origin, filters>>

(* ---- the fetch functions after their await ---- *)
\* rs with item x put before the first item of a smaller score
RECURSIVE insertByScore(_, _)
insertByScore(x, rs) ==
    IF rs = <<>> THEN <<x>>
    ELSE IF Head(rs).score < x.score THEN <<x>> \o rs
    ELSE <<Head(rs)>> \o insertByScore(x, Tail(rs))

sortedCopy(rs) == rs

\* data.results.sort((a, b) => b.score - a.score): descending, stable
RECURSIVE sortByScore(_)
sortByScore(rs) ==
    IF rs = <<>> THEN <<>>
    ELSE insertByScore(rs[Len(rs)], sortByScore(SubSeq(rs, 1, Len(rs) - 1)))

Answered(r, api) ==
    /\ r.api = api
    /\ inflight' = inflight \ {r}
    /\ UNCHANGED <<keyword, pendings, nextId, lastSearch, filters>>

FailedAccumulating(r, api, apiName, err) ==
    /\ Answered(r, api)
    /\ error' = Some((IF error = Null THEN <<>> ELSE Val(error)) \o ErrorMessage(err, apiName))

FailedRetrying(r, api, apiName, err) ==
    /\ r.api = api
    /\ IF nextId <= MaxRequests
       THEN inflight' = (inflight \ {r}) \cup {[r EXCEPT !.id = nextId]} /\ nextId' = nextId + 1
       ELSE inflight' = inflight \ {r} /\ UNCHANGED nextId
    /\ UNCHANGED <<keyword, pendings, lastSearch, filters>>
    /\ error' = Some(ErrorMessage(err, apiName))

\* catch (err) { handleAxiosError(err, apiName) }
Failed(r, api, apiName, err) ==
    /\ Answered(r, api)
    /\ error' = Some(ErrorMessage(err, apiName))

CandidateResponse(r, cs) ==
    /\ Answered(r, "candidate")
    /\ candidateData' = Some([seed_keyword |-> r.payload.keyword, candidates |-> cs])
    /\ lastAction' = Act("CandidateResponse", r.id,
                         Body([seed_keyword |-> r.payload.keyword, candidates |-> cs]))
    /\ UNCHANGED <<analyzeData, graphData, error, createStatus>>
    /\ Track(r.id, origin.analyze, origin.graph, origin.create)

CandidateError(r, err) ==
    /\ Failed(r, "candidate", "Candidate", err)
    /\ lastAction' = Act("CandidateError", r.id, Thrown(err))
    /\ UNCHANGED <<candidateData, analyzeData, graphData, createStatus>>
    /\ KeepOrigin

\* setAnalyzeData(response.data), and the render that follows it:
\* AnalyzeResultDisplay sorts the held list itself
AnalyzeResponse(r, rs) ==
    /\ Answered(r, "analyze")
    /\ analyzeData' = Some([seed_keyword |-> r.payload.seed_keyword, results |-> sortByScore(rs)])
    /\ lastAction' = Act("AnalyzeResponse", r.id,
                         Body([seed_keyword |-> r.payload.seed_keyword, results |-> rs]))
    /\ UNCHANGED <<candidateData, graphData, error, createStatus>>
    /\ Track(origin.candidate, r.id, origin.graph, origin.create)

AnalyzeError(r, err) ==
    /\ Failed(r, "analyze", "Analyze", err)
    /\ lastAction' = Act("AnalyzeError", r.id, Thrown(err))
    /\ UNCHANGED <<candidateData, analyzeData, graphData, createStatus>>
    /\ KeepOrigin

OnCreateResultWithoutMessage(result) ==
    IF StrictEqualsTrue(result)
    THEN createStatus' = "success" /\ UNCHANGED error
    ELSE createStatus' = "failure" /\ UNCHANGED error

\* the branches on response.data.result
OnCreateResult(result) ==
    IF StrictEqualsTrue(result)
    THEN createStatus' = "success" /\ UNCHANGED error
    ELSE createStatus' = "failure" /\ error' = Some(MsgCreateReturnedFailure)

\* body is the response's data: an object with a result field, or null,
\* on which reading .result throws inside the try block
CreateResponse(r, body) ==
    /\ Answered(r, "create")
    /\ IF body = Null
       THEN /\ createStatus' = "failure"
            /\ error' = Some(ErrorMessage(TypeErrorNoData, "Create Graph"))
       ELSE OnCreateResult(Val(body).result)
    /\ lastAction' = Act("CreateResponse", r.id, IF body = Null THEN NoValue ELSE Val(body).result)
    /\ UNCHANGED <<candidateData, analyzeData, graphData>>
    /\ Track(origin.candidate, origin.analyze, origin.graph, r.id)

CreateError(r, err) ==
    /\ Failed(r, "create", "Create Graph", err)
    /\ createStatus' = "failure"
    /\ lastAction' = Act("CreateError", r.id, Thrown(err))
    /\ UNCHANGED <<candidateData, analyzeData, graphData>>
    /\ Track(origin.candidate, origin.analyze, origin.graph, r.id)

ShowGraphResponse(r, g) ==
    /\ Answered(r, "show_graph")
    /\ graphData' = Some(g)
    /\ lastAction' = Act("ShowGraphResponse", r.id, Body(g))
    /\ UNCHANGED <<candidateData, analyzeData, error, createStatus>>
    /\ Track(origin.candidate, origin.analyze, r.id, origin.create)

ShowGraphError(r, err) ==
    /\ Failed(r, "show_graph", "Show Graph", err)
    /\ lastAction' = Act("ShowGraphError", r.id, Thrown(err))
    /\ UNCHANGED <<candidateData, analyzeData, graphData, createStatus>>
    /\ KeepOrigin

(* ---- the command-line tools ---- *)
\* A tool's request is not the page's: no stage of the page receives its
\* response, curl prints it.
Curl(tool, method, path, payload) ==
    /\ CanSend
    /\ inflight' = inflight \cup
           {[id |-> nextId, api |-> "curl", method |-> method, path |-> path, payload |-> payload]}
    /\ nextId' = nextId + 1
    /\ lastAction' = Act(tool, nextId, NoValue)
    /\ UNCHANGED <<keyword, data, pendings, lastSearch, origin, filters>>

\* the keyword the two scripts search for, a fixed word ("cooking")
ToolKeyword == <<"c", "o", "o", "k", "i", "n", "g">>

\* tools/create-candidate.sh: curl -i -XGET ... localhost:8000/candidate -d '{...}'
create_candidate_sh ==
    Curl("create-candidate.sh", "GET", "/candidate",
         [index |-> "videos", field |-> "snippet.title", keyword |-> ToolKeyword])

\* the other copy of the script: curl -i -XPOST ... localhost:8000/candidate -d '{...}'
create_candidate_post_sh ==
    Curl("part_000", "POST", "/candidate",
         [index |-> "videos", field |-> "snippet.title", keyword |-> ToolKeyword])

\* curl prints the response and exits
curlExit(r) ==
    /\ r.api = "curl"
    /\ inflight' = inflight \ {r}
    /\ lastAction' = Act("curlExit", r.id, NoValue)
    /\ UNCHANGED <<keyword, data, pendings, nextId, lastSearch, origin, filters>>

(* ---- GraphVisualizationComponent ---- *)
\* String.prototype.toLowerCase, on the letters of the model
lowerChar(c) ==
    CASE c = "A" -> "a"
      [] c = "B" -> "b"
      [] c = "F" -> "f"
      [] OTHER -> c

toLowerCase(s) == [i \in 1..Len(s) |-> lowerChar(s[i])]

\* the group of a node, from its label and the keyword prop
nodeGroup(label, kw) ==
    IF toLowerCase(trim(label)) = toLowerCase(trim(kw)) THEN "seed" ELSE "related"

\* data.nodes.map(...): what the vis.DataSet of nodes is made from
visNodes(nodes, kw) ==
    [i \in 1..Len(nodes) |->
        [id |-> nodes[i].id, label |-> nodes[i].label, group |-> nodeGroup(nodes[i].label, kw),
         title |-> <<nodes[i].label, nodes[i].entity_type, nodes[i].iab_categories>>]]

CanDrawWithoutLoadedCheck(loaded, container, nodes, pending, vis) ==
    container /\ Len(nodes) > 0 /\ ~pending /\ vis

\* the guards of the draw effect: it goes on to new vis.Network only when
\* none of them returns
CanDraw(loaded, container, nodes, pending, vis) ==
    loaded /\ container /\ Len(nodes) > 0 /\ ~pending /\ vis

DepsChangedIgnoringKeyword(loaded) ==
    \/ loaded # isVisLoaded
    \/ graphData' # graphData \/ lastAction'.op = "ShowGraphResponse"
    \/ isGraphPending' # isGraphPending
    \/ minScore' # minScore
    \/ entityTypeFilter' # entityTypeFilter
    \/ iabCategoryFilter' # iabCategoryFilter

\* the dependency array of the draw effect; data is compared by identity,
\* and every response is a new object
DepsChanged(loaded) ==
    \/ loaded # isVisLoaded
    \/ graphData' # graphData \/ lastAction'.op = "ShowGraphResponse"
    \/ isGraphPending' # isGraphPending
    \/ keyword' # keyword
    \/ minScore' # minScore
    \/ entityTypeFilter' # entityTypeFilter
    \/ iabCategoryFilter' # iabCategoryFilter

AliveWithoutCleanup(n) == n

\* the cleanup the draw effect returned: network.destroy()
AliveAfterCleanup(n) == IF network # Null THEN n - 1 ELSE n

\* the draw effect, run with the props of the render just committed; the
\* container is the Box of the last return statement, rendered only when the
\* graph is not pending and has a node
drawEffect(loaded, vis) ==
    LET nodes == Val(graphData').nodes
        container == ~isGraphPending' /\ Len(nodes) > 0
    IN IF CanDraw(loaded, container, nodes, isGraphPending', vis)
       THEN /\ network' = Some(visNodes(nodes, keyword'))
            /\ networks' = AliveAfterCleanup(networks) + 1
       ELSE /\ network' = Null
            /\ networks' = AliveAfterCleanup(networks)

\* The render that follows a step of the page, and its effects. Home mounts
\* the component while graphData is not null. On mount the script effect
\* looks at window.vis and at the script element; the draw effect runs on
\* mount and when a dependency changed, after the cleanup of its last run.
Render ==
    IF graphData' = Null
    THEN /\ mountId' = 0
         /\ isVisLoaded' = FALSE
         /\ network' = Null
         /\ networks' = AliveAfterCleanup(networks)
         /\ UNCHANGED <<visScript, scriptOwner>>
    ELSE LET newMount == mountId = 0
             m == IF newMount THEN origin'.graph ELSE mountId
             loaded == IF newMount THEN visScript = "loaded" ELSE isVisLoaded
             append == newMount /\ visScript = "none"
         IN /\ mountId' = m
            /\ isVisLoaded' = loaded
            /\ visScript' = IF append THEN "loading" ELSE visScript
            /\ scriptOwner' = IF append THEN m ELSE scriptOwner
            /\ IF newMount \/ DepsChanged(loaded)
               THEN drawEffect(loaded, visScript = "loaded")
               ELSE UNCHANGED <<network, networks>>

\* script.onload = () => setIsVisLoaded(true): the setter is the one of the
\* mount that appended the script
scriptOnload ==
    /\ visScript = "loading"
    /\ visScript' = "loaded"
    /\ lastAction' = Act("onload", 0, NoValue)
    /\ UNCHANGED <<keyword, data, pendings, inflight, nextId, lastSearch, origin, filters,
                   scriptOwner, mountId>>
    /\ IF mountId # 0 /\ mountId = scriptOwner
       THEN /\ isVisLoaded' = TRUE
            /\ drawEffect(TRUE, TRUE)
       ELSE UNCHANGED <<isVisLoaded, network, networks>>

CreateBodies == {Null} \cup {Some([result |-> x]) : x \in JsValues}

Next ==
    \/ \E v \in KeywordInputs : setKeyword(v) /\ UNCHANGED comp
    \/ handleGetCandidate /\ UNCHANGED comp
    \/ handleAnalyze /\ UNCHANGED comp
    \/ handleCreateGraph /\ UNCHANGED comp
    \/ handleShowGraph /\ UNCHANGED comp
    \/ endTransition /\ UNCHANGED comp
    \/ endAnalyzeTransition /\ UNCHANGED comp
    \/ endCreateTransition /\ UNCHANGED comp
    \/ endGraphTransition /\ UNCHANGED comp
    \/ \E r \in inflight : \E cs \in CandidateLists : CandidateResponse(r, cs) /\ UNCHANGED comp
    \/ \E r \in inflight : \E err \in Errors : CandidateError(r, err) /\ UNCHANGED comp
    \/ \E r \in inflight : \E rs \in AnalyzeResultLists : AnalyzeResponse(r, rs) /\ UNCHANGED comp
    \/ \E r \in inflight : \E err \in Errors : AnalyzeError(r, err) /\ UNCHANGED comp
    \/ \E r \in inflight : \E body \in CreateBodies : CreateResponse(r, body) /\ UNCHANGED comp
    \/ \E r \in inflight : \E err \in Errors : CreateError(r, err) /\ UNCHANGED comp
    \/ \E r \in inflight : \E g \in GraphOutputs : ShowGraphResponse(r, g) /\ UNCHANGED comp
    \/ \E r \in inflight : \E err \in Errors : ShowGraphError(r, err) /\ UNCHANGED comp

\* The page on its own: nothing the graph component does reaches the page's
\* state, so the component is left out of this specification.
Spec == Init /\ [][Next]_vars

\* the graph view on its own: the keyword, the graph settings and the
\* show-graph stage; the settings are edited between requests
FilterNext ==
    \/ \E v \in KeywordInputs : inflight = {} /\ setKeyword(v) /\ UNCHANGED comp
    \/ \E input \in DepthInputs : inflight = {} /\ handleMaxDepthChange(input) /\ UNCHANGED comp
    \/ \E input \in ScoreInputs : inflight = {} /\ handleMinScoreChange(input) /\ UNCHANGED comp
    \/ \E v \in EntityTypes : inflight = {} /\ setEntityTypeFilter(v) /\ UNCHANGED comp
    \/ \E v \in IabInputs : inflight = {} /\ setIabCategoryFilter(v) /\ UNCHANGED comp
    \/ handleShowGraph /\ UNCHANGED comp
    \/ endGraphTransition /\ UNCHANGED comp
    \/ \E r \in inflight, g \in GraphOutputs : ShowGraphResponse(r, g) /\ UNCHANGED comp
    \/ \E r \in inflight, err \in Errors : ShowGraphError(r, err) /\ UNCHANGED comp

FilterSpec == Init /\ [][FilterNext]_vars

\* the candidate stage of the page next to the two candidate scripts
ToolsNext ==
    \/ \E v \in KeywordInputs : setKeyword(v) /\ UNCHANGED comp
    \/ handleGetCandidate /\ UNCHANGED comp
    \/ endTransition /\ UNCHANGED comp
    \/ \E r \in inflight : \E cs \in CandidateLists : CandidateResponse(r, cs) /\ UNCHANGED comp
    \/ \E r \in inflight : \E err \in Errors : CandidateError(r, err) /\ UNCHANGED comp
    \/ create_candidate_sh /\ UNCHANGED comp
    \/ create_candidate_post_sh /\ UNCHANGED comp
    \/ \E r \in inflight : curlExit(r) /\ UNCHANGED comp

ToolsSpec == Init /\ [][ToolsNext]_vars

\* the graph view with its component: the keyword, the entity-type filter,
\* the show-graph stage and the script's load event
GraphNext ==
    \/ \E v \in KeywordInputs : setKeyword(v) /\ Render
    \/ \E v \in EntityTypes : setEntityTypeFilter(v) /\ Render
    \/ handleShowGraph /\ Render
    \/ endGraphTransition /\ Render
    \/ \E r \in inflight : \E g \in GraphOutputs : ShowGraphResponse(r, g) /\ Render
    \/ \E r \in inflight : \E err \in Errors : ShowGraphError(r, err) /\ Render
    \/ scriptOnload

GraphSpec == Init /\ [][GraphNext]_vars

(* ---- properties ---- *)
HeldCandidates == IF candidateData = Null THEN <<>> ELSE Val(candidateData).candidates
HeldResults == IF analyzeData = Null THEN <<>> ELSE Val(analyzeData).results
HeldNodes == IF graphData = Null THEN <<>> ELSE Val(graphData).nodes
InFlight(api) == {r \in inflight : r.api = api}
NonEmptyMessage(e) == e # Null /\ \E i \in 1..Len(Val(e)) : Val(e)[i] # ""
FetchOps == {"fetchCandidate", "fetchAnalyze", "fetchCreateGraph", "fetchShowGraph"}

\* C1 as stated: whenever the Analyze button is enabled, the held candidate
\* list is non-empty.
C1_EnabledImpliesCandidates == ~AnalyzeDisabled => Len(HeldCandidates) > 0

\* C1 amended: whenever the Analyze button is enabled a candidate response is
\* held (its list may be empty), and every analyze request sent carries at
\* least one title: with an empty list the click only reports an error.
C1_EnabledImpliesResponseHeld ==
    /\ ~AnalyzeDisabled => candidateData # Null
    /\ \A r \in InFlight("analyze") : Len(r.payload.children) > 0
    /\ (lastAction.op = "handleAnalyze" => error = Some(MsgAnalyzeNeedsCandidates))

C1_Witness ==
    /\ ~AnalyzeDisabled
    /\ candidateData # Null
    /\ HeldCandidates = <<>>
    /\ lastAction.op = "handleAnalyze"

\* C2 as stated: whenever the Create Graph button is enabled, the held
\* analysis result list is non-empty.
C2_EnabledImpliesResults == ~CreateGraphDisabled => Len(HeldResults) > 0

\* C2 amended: whenever the Create Graph button is enabled an analyze
\* response is held (its list may be empty), and every create request sent
\* carries at least one child: with an empty list the click only reports an
\* error.
C2_EnabledImpliesResponseHeld ==
    /\ ~CreateGraphDisabled => analyzeData # Null
    /\ \A r \in InFlight("create") : Len(r.payload.children) > 0
    /\ (lastAction.op = "handleCreateGraph" => error = Some(MsgCreateNeedsAnalyze))

C2_Witness ==
    /\ ~CreateGraphDisabled
    /\ analyzeData # Null
    /\ HeldResults = <<>>
    /\ lastAction.op = "handleCreateGraph"

\* C3: right after a create response or a create failure is processed, the
\* create status is 'success' if the backend responded with result exactly
\* the boolean true, and 'failure' in every other case.
C3_SuccessIffResultTrue ==
    lastAction.op \in {"CreateResponse", "CreateError"} =>
        createStatus = IF /\ lastAction.op = "CreateResponse"
                          /\ lastAction.arg = [t |-> "boolean", v |-> "true"]
                       THEN "success" ELSE "failure"

C3_Witness ==
    /\ lastAction.op = "CreateResponse"
    /\ lastAction.arg = [t |-> "number", v |-> "1"]
    /\ createStatus = "failure"

\* C4: in every reachable state, create status 'failure' implies a
\* non-empty error message.
C4_FailureHasMessage == createStatus = "failure" => NonEmptyMessage(error)

C4_Witness ==
    /\ createStatus = "failure"
    /\ lastAction.op = "CreateResponse"
    /\ lastAction.arg = [t |-> "boolean", v |-> "false"]
    /\ error = Some(MsgCreateReturnedFailure)

\* C5 as stated: right after a candidate search starts the analysis results
\* and the graph are empty; right after an analyze or a create starts the
\* graph is empty (no node is held).
C5_StartClearsLaterStages ==
    /\ lastAction.op = "fetchCandidate" => HeldResults = <<>> /\ HeldNodes = <<>>
    /\ lastAction.op = "fetchAnalyze" => HeldNodes = <<>>
    /\ lastAction.op = "fetchCreateGraph" => HeldNodes = <<>>

\* C6: starting analyze leaves the held candidate list unchanged; starting
\* create or show-graph leaves the candidate list and the analysis results
\* unchanged.
C6_StartKeepsEarlierStages ==
    [][/\ lastAction'.op = "fetchAnalyze" => candidateData' = candidateData
       /\ lastAction'.op \in {"fetchCreateGraph", "fetchShowGraph"} =>
              candidateData' = candidateData /\ analyzeData' = analyzeData]_vars

C6_Witness ==
    /\ lastAction.op = "fetchShowGraph"
    /\ Len(HeldCandidates) > 0
    /\ Len(HeldResults) > 0

\* C7: starting any of the four stages sets the create status to idle,
\* whatever it was, and it leaves idle only when a create response or a
\* create failure is processed.
C7_StartResetsCreateStatus ==
    [][/\ lastAction'.op \in FetchOps => createStatus' = "idle"
       /\ (createStatus = "idle" /\ createStatus' # "idle") =>
              lastAction'.op \in {"CreateResponse", "CreateError"}]_vars

C7_Witness ==
    /\ lastAction.op = "fetchShowGraph"
    /\ lastAction.was = "success"
    /\ createStatus = "idle"

\* C8 as stated: once a candidate search has started, analysis results are
\* held only from an analyze request started after it, a graph only from a
\* show-graph request started after it, and the create status is not idle
\* only by a create request started after it.
C8_NothingComesBack ==
    lastSearch > 0 =>
        /\ analyzeData # Null => origin.analyze > lastSearch
        /\ graphData # Null => origin.graph > lastSearch
        /\ createStatus # "idle" => origin.create > lastSearch

\* C9 as stated: no stage has two of its own requests in flight, and a
\* stage's button is disabled while a request of that stage is in flight.
C9_OneRequestPerStage ==
    /\ \A api \in {"candidate", "analyze", "create", "show_graph"} :
           Cardinality(InFlight(api)) <= 1
    /\ InFlight("candidate") # {} => GetCandidateDisabled
    /\ InFlight("analyze") # {} => AnalyzeDisabled
    /\ InFlight("create") # {} => CreateGraphDisabled
    /\ InFlight("show_graph") # {} => ShowGraphDisabled

\* C10 as stated: show-graph can be started in every state in which the
\* keyword is not the empty string.
C10_StartableWithKeyword == keyword # <<>> => ~ShowGraphDisabled

\* C10 amended: show-graph can be started in every state in which the
\* keyword is non-empty after trimming and no stage's pending flag is set,
\* whether or not a candidate list, analysis results or a create result
\* exist.
C10_StartableWithTrimmedKeyword ==
    (trim(keyword) # <<>> /\ ~AnyPending) =>
        /\ ~ShowGraphDisabled
        /\ CanSend => ENABLED handleShowGraph

C10_Witness ==
    /\ lastAction.op = "fetchShowGraph"
    /\ candidateData = Null
    /\ analyzeData = Null
    /\ lastAction.was = "idle"
    /\ InFlight("show_graph") # {}

(* ---- the requests as sent ---- *)
\* the request a fetch step has just sent
Newest == CHOOSE r \in inflight : r.id = nextId - 1
Started(op) == lastAction.op = op
\* the query of a show-graph request as the server reads it
Query(r) == parseQuery(r.payload.query)
Count(q, name) == Cardinality({i \in 1..Len(q) : q[i][1] = name})
Value(q, name) == q[CHOOSE i \in 1..Len(q) : q[i][1] = name][2]

C12_FiltersSentWhenSet ==
    Started("fetchShowGraph") =>
        LET q == Query(Newest)
        IN /\ Count(q, "entity_type") = IF entityTypeFilter # "all" THEN 1 ELSE 0
           /\ entityTypeFilter # "all" => Value(q, "entity_type") = <<entityTypeFilter>>
           /\ Count(q, "iab_category") =
                  IF \E i \in 1..Len(iabCategoryFilter) : ~IsSpace(iabCategoryFilter[i])
                  THEN 1 ELSE 0
           /\ Count(q, "iab_category") = 1 => Value(q, "iab_category") = trim(iabCategoryFilter)

C12_Witness ==
    /\ Started("fetchShowGraph")
    /\ entityTypeFilter = "Proper"
    /\ iabCategoryFilter = <<" ", "F", " ", "&">>
    /\ Value(Query(Newest), "entity_type") = <<"Proper">>
    /\ Value(Query(Newest), "iab_category") = <<"F", " ", "&">>

\* C19: every show-graph call is a GET of /show_graph whose query carries
\* seed_keyword equal to the keyword input at the time of the trigger and
\* max_depth reading as the max-depth input at that moment.
C19_ShowGraphCall ==
    Started("fetchShowGraph") =>
        LET q == Query(Newest)
        IN /\ Newest.method = "GET"
           /\ Newest.path = "/show_graph"
           /\ Count(q, "seed_keyword") = 1
           /\ Value(q, "seed_keyword") = keyword
           /\ Count(q, "max_depth") = 1
           /\ parseInt(Value(q, "max_depth")) = Num(maxDepth)

C19_Witness ==
    /\ Started("fetchShowGraph")
    /\ keyword = <<"a", " ">>
    /\ maxDepth = 3
    /\ Value(Query(Newest), "seed_keyword") = <<"a", " ">>
    /\ Value(Query(Newest), "max_depth") = <<"3">>

\* C16 as stated: every candidate call is a POST to /candidate whose body is
\* {index, field, keyword} with index 'videos' and field 'snippet.title',
\* and the page's call carries the keyword input as it was when the trigger
\* was activated.
C16_CandidateCallIsPost ==
    /\ \A r \in inflight :
           r.path = "/candidate" =>
               /\ r.method = "POST"
               /\ DOMAIN r.payload = {"index", "field", "keyword"}
               /\ r.payload.index = "videos"
               /\ r.payload.field = "snippet.title"
    /\ Started("fetchCandidate") => Newest.payload.keyword = keyword

(* ---- error messages ---- *)
IsHttpKind(msg) == Len(msg) >= 3 /\ msg[2] = " API request failed: " /\ msg[3] = "HTTP error ("
IsUnexpectedKind(msg) == Len(msg) >= 1 /\ msg[1] = "Unexpected error: "
\* how many messages of the two kinds the string is made of
KindMarks(msg) ==
    Cardinality({i \in 1..Len(msg) : msg[i] \in {" API request failed: ", "Unexpected error: "}})
OneOfTwoKinds(e) ==
    /\ NonEmptyMessage(e)
    /\ IsHttpKind(Val(e)) # IsUnexpectedKind(Val(e))
    /\ KindMarks(Val(e)) = 1
ErrorOps == {"CandidateError", "AnalyzeError", "CreateError", "ShowGraphError"}
FailedStage == Started("CreateResponse") /\ createStatus = "failure"

\* C13 as stated: after any failed stage (a request that threw, or a create
\* response that did not succeed) the error message is non-empty, is of
\* exactly one of the two kinds, HTTP error or unexpected error, and is one
\* message, not earlier messages with a new one added.
C13_FailureIsOneOfTwoKinds ==
    (lastAction.op \in ErrorOps \/ FailedStage) => OneOfTwoKinds(error)

\* C13 amended: after a request that threw, and after a create response
\* without a body, the error message is non-empty, of exactly one of the two
\* kinds and a single message that replaced the earlier one; after a create
\* response whose result is not true the error is a third, fixed message.
C13_FailureKinds ==
    /\ lastAction.op \in ErrorOps => OneOfTwoKinds(error)
    /\ (lastAction.op \in ErrorOps /\ lastAction.arg.v.axios) => IsHttpKind(Val(error))
    /\ FailedStage =>
           IF lastAction.arg = NoValue
           THEN OneOfTwoKinds(error) /\ IsUnexpectedKind(Val(error))
           ELSE error = Some(MsgCreateReturnedFailure)

C13_Witness ==
    /\ Started("AnalyzeError")
    /\ lastAction.arg.v.axios
    /\ IsHttpKind(Val(error))
    /\ Val(error)[1] = "Analyze"

\* C14 as stated: the step that processes a successful response makes the
\* stage's held result exactly the response body the backend sent and leaves
\* the held results of the other stages unchanged.
C14_ResponseReplacesExactly ==
    [][/\ lastAction'.op = "CandidateResponse" =>
              /\ candidateData' = Some(lastAction'.arg.v)
              /\ UNCHANGED <<analyzeData, graphData>>
       /\ lastAction'.op = "AnalyzeResponse" =>
              /\ analyzeData' = Some(lastAction'.arg.v)
              /\ UNCHANGED <<candidateData, graphData>>
       /\ lastAction'.op = "ShowGraphResponse" =>
              /\ graphData' = Some(lastAction'.arg.v)
              /\ UNCHANGED <<candidateData, analyzeData>>]_vars

\* C15: a create request is sent only when analysis results of an answered
\* analyze request are held, at least one of them; an analyze request is
\* sent only when candidates of an answered candidate request are held, at
\* least one of them.
C15_StagesInOrder ==
    /\ Started("fetchAnalyze") =>
           /\ origin.candidate > 0
           /\ \A r \in inflight : r.id # origin.candidate
           /\ Len(HeldCandidates) > 0
    /\ Started("fetchCreateGraph") =>
           /\ origin.analyze > 0
           /\ \A r \in inflight : r.id # origin.analyze
           /\ Len(HeldResults) > 0

C15_Witness ==
    /\ Started("fetchCreateGraph")
    /\ origin.candidate > 0
    /\ origin.analyze > origin.candidate
    /\ Newest.api = "create"

\* C17: every analyze request is a POST of /analyze carrying the seed
\* keyword of the held candidate response and, as children, the titles of
\* the held candidates, one per candidate, in the candidates' order.
C17_AnalyzeCall ==
    Started("fetchAnalyze") =>
        /\ Newest.method = "POST"
        /\ Newest.path = "/analyze"
        /\ candidateData # Null
        /\ Newest.payload.seed_keyword = Val(candidateData).seed_keyword
        /\ Len(Newest.payload.children) = Len(HeldCandidates)
        /\ \A i \in 1..Len(HeldCandidates) :
               Newest.payload.children[i] = HeldCandidates[i].snippet.title

C17_Witness ==
    /\ Started("fetchAnalyze")
    /\ Len(Newest.payload.children) > 1
    /\ Newest.payload.children[1] # Newest.payload.children[2]
    /\ keyword # Newest.payload.seed_keyword

\* C18: every create request is a POST of /create carrying the seed keyword
\* of the held analysis response and one child per held analysis result, in
\* order, each with that result's keyword, score, entity_type and
\* iab_categories.
C18_CreateCall ==
    Started("fetchCreateGraph") =>
        /\ Newest.method = "POST"
        /\ Newest.path = "/create"
        /\ analyzeData # Null
        /\ Newest.payload.seed_keyword = Val(analyzeData).seed_keyword
        /\ Len(Newest.payload.children) = Len(HeldResults)
        /\ \A i \in 1..Len(HeldResults) :
               LET c == Newest.payload.children[i]
                   h == HeldResults[i]
               IN /\ c.keyword = h.keyword
                  /\ c.score = h.score
                  /\ c.entity_type = h.entity_type
                  /\ c.iab_categories = h.iab_categories

C18_Witness ==
    /\ Started("fetchCreateGraph")
    /\ Len(Newest.payload.children) > 1
    /\ Newest.payload.children[1].entity_type # Newest.payload.children[2].entity_type
    /\ Newest.payload.children[1].score > Newest.payload.children[2].score

\* C20: a step sends a request only if it is an accepted trigger, and then
\* it sends exactly one; every other step, the processing of a failure
\* included, sends none.
C20_NoRetry ==
    [][IF lastAction'.op \in FetchOps
       THEN /\ nextId' = nextId + 1
            /\ inflight \subseteq inflight'
            /\ Cardinality(inflight' \ inflight) = 1
       ELSE /\ nextId' = nextId
            /\ inflight' \subseteq inflight]_vars

C20_Witness ==
    /\ Started("CandidateError")
    /\ InFlight("candidate") = {}
    /\ candidateData = Null
    /\ error # Null

\* C25: the max-depth setting is a non-negative integer in every reachable
\* state; it starts at 2, the input "3" makes it 3, the empty input makes
\* it 0, a negative or non-numeric input leaves it as it was, and no other
\* step changes it.
C25_MaxDepthSetting ==
    /\ [](maxDepth \in Nat /\ (Started("init") => maxDepth = 2))
    /\ [][IF lastAction'.op = "handleMaxDepthChange"
           THEN maxDepth' = CASE lastAction'.arg.v = <<>> -> 0
                              [] lastAction'.arg.v = <<"3">> -> 3
                              [] OTHER -> maxDepth
           ELSE maxDepth' = maxDepth]_vars

C25_Witness ==
    /\ Started("handleMaxDepthChange")
    /\ lastAction.arg.v = <<"-", "1">>
    /\ maxDepth = 3

\* C26: the minimum score is within 0..1 in every reachable state; it
\* starts at 0.5, the inputs "1" and "0.25" replace it, the empty,
\* non-numeric, negative and above-one inputs leave it as it was, no other
\* step changes it, and every min_score sent reads as a number in 0..1.
C26_MinScoreSetting ==
    /\ [](/\ minScore \in 0..100
          /\ Started("init") => minScore = 50
          /\ Started("fetchShowGraph") =>
                 LET sent == parseFloat(Value(Query(Newest), "min_score"))
                 IN ~sent.nan /\ sent.val \in 0..100)
    /\ [][IF lastAction'.op = "handleMinScoreChange"
           THEN minScore' = CASE lastAction'.arg.v = <<"1">> -> 100
                              [] lastAction'.arg.v = <<"0", ".", "2", "5">> -> 25
                              [] OTHER -> minScore
           ELSE minScore' = minScore]_vars

C26_Witness ==
    /\ Started("handleMinScoreChange")
    /\ lastAction.arg.v = <<"1", ".", "5">>
    /\ minScore = 25

\* C21 as stated: the step that processes a failed request leaves the held
\* results of all stages unchanged, the failed stage's own result is empty
\* after it, the create status changes only for a create failure, and
\* nothing else but the error message changes.
C21_FailureDisturbsNothing ==
    [][lastAction'.op \in ErrorOps =>
          /\ UNCHANGED <<candidateData, analyzeData, graphData>>
          /\ lastAction'.op = "CandidateError" => candidateData' = Null
          /\ lastAction'.op = "AnalyzeError" => analyzeData' = Null
          /\ lastAction'.op = "ShowGraphError" => graphData' = Null
          /\ IF lastAction'.op = "CreateError"
             THEN createStatus' = "failure"
             ELSE createStatus' = createStatus
          /\ error' # Null
          /\ UNCHANGED <<keyword, pendings, filters>>]_vars

\* C23: every analyze request in flight has at least one title, every
\* create request at least one child, every candidate and show-graph request
\* a keyword that is non-empty after trimming; a handler invoked with its
\* precondition false sets the error message, sends nothing and leaves the
\* held results and the create status unchanged.
C23_NoRequestWithoutPrecondition ==
    /\ [](\A r \in inflight :
             /\ r.api \in {"analyze", "create"} => Len(r.payload.children) > 0
             /\ r.api = "candidate" => trim(r.payload.keyword) # <<>>
             /\ r.api = "show_graph" => trim(Value(Query(r), "seed_keyword")) # <<>>)
    /\ [][lastAction'.op \in {"handleGetCandidate", "handleAnalyze",
                              "handleCreateGraph", "handleShowGraph"} =>
              /\ NonEmptyMessage(error')
              /\ inflight' = inflight
              /\ nextId' = nextId
              /\ UNCHANGED <<candidateData, analyzeData, graphData, createStatus>>]_vars

C23_Witness ==
    /\ Started("handleAnalyze")
    /\ candidateData # Null
    /\ error = Some(MsgAnalyzeNeedsCandidates)
    /\ InFlight("analyze") = {}

\* C24 as stated: no two requests of the analyze, create and show-graph
\* stages are in flight together, and at most two requests are in flight at
\* any time.
C24_AtMostTwoInFlight ==
    /\ Cardinality(InFlight("analyze") \cup InFlight("create") \cup InFlight("show_graph")) <= 1
    /\ Cardinality(inflight) <= 2

(* ---- lists ---- *)
Occurrences(s, x) == Cardinality({i \in 1..Len(s) : s[i] = x})
IsPermutation(a, b) ==
    /\ Len(a) = Len(b)
    /\ \A i \in 1..Len(a) : Occurrences(a, a[i]) = Occurrences(b, a[i])
Descending(rs) == \A i \in 1..(Len(rs) - 1) : rs[i].score >= rs[i + 1].score

\* C30: the held analysis results are in descending score order whenever
\* they are displayed, right after a response they are a permutation of the
\* results the backend returned, and a create request carries its children
\* in the held, descending order.
C30_SortedInPlace ==
    /\ Descending(HeldResults)
    /\ Started("AnalyzeResponse") => IsPermutation(HeldResults, lastAction.arg.v.results)
    /\ Started("fetchCreateGraph") =>
           /\ Descending(Newest.payload.children)
           /\ Len(Newest.payload.children) = Len(HeldResults)
           /\ \A i \in 1..Len(HeldResults) :
                  Newest.payload.children[i].keyword = HeldResults[i].keyword

C30_Witness ==
    /\ Started("AnalyzeResponse")
    /\ Len(HeldResults) > 1
    /\ ~Descending(lastAction.arg.v.results)
    /\ Descending(HeldResults)

(* ---- the graph component ---- *)
\* the conditions under which the graph is to be drawn, with nothing left
\* that could still change them but the user
ReadyToDraw ==
    /\ Len(HeldNodes) > 0
    /\ ~isGraphPending
    /\ InFlight("show_graph") = {}
    /\ visScript = "loaded"

\* C22 as stated: when graph data with at least one node is held, no
\* show-graph request is pending or in flight and the script has loaded, a
\* network is drawn for the held data. Render and effects complete within
\* the step, and in such a state no step but a user's is left to take.
C22_DrawnWhenReady == ReadyToDraw => network # Null /\ networks > 0

C28_AtMostOneNetwork ==
    /\ networks <= 1
    /\ networks = 1 <=> network # Null
    /\ graphData = Null => networks = 0

C28_Witness ==
    /\ Started("setKeyword")
    /\ networks = 1
    /\ network # Null

\* C29: the nodes handed to the renderer are the held nodes, each once and
\* in order, and a node is in group 'seed' exactly when its label, trimmed
\* and lower-cased, equals the current keyword input, trimmed and
\* lower-cased, and in group 'related' otherwise.
C29_NodeGroups ==
    network # Null =>
        LET drawn == Val(network)
        IN /\ Len(drawn) = Len(HeldNodes)
           /\ \A i \in 1..Len(drawn) :
                  /\ drawn[i].id = HeldNodes[i].id
                  /\ drawn[i].label = HeldNodes[i].label
                  /\ Cardinality({j \in 1..Len(drawn) : drawn[j].id = drawn[i].id}) = 1
                  /\ drawn[i].group =
                         IF toLowerCase(trim(HeldNodes[i].label)) = toLowerCase(trim(keyword))
                         THEN "seed" ELSE "related"

C29_Witness ==
    /\ Started("setKeyword")
    /\ keyword = <<" ">>
    /\ network # Null
    /\ Len(HeldNodes) > 1
    /\ HeldNodes[2].group = "seed"
    /\ Val(network)[1].group = "related"
    /\ Val(network)[2].group = "related"

====
